---- MODULE Spec2Model ----
(***************************************************************************)
(* Model of src/src/lib.rs: the three-tier spatial hierarchy               *)
(* MasterServer -> ServerCluster -> GameServer, the SpatialPartition       *)
(* predicates and the propagation of a GameEvent through the hierarchy.    *)
(*                                                                         *)
(* f32 coordinates are modelled by integers.  The partition of every       *)
(* server and cluster of the model has corners that are multiples of 100,  *)
(* and every position and radius is a small integer, so each sum,          *)
(* difference and halving the code performs is exact in f32 and equals the *)
(* integer result computed here.  NaN and the infinities are not modelled. *)
(* Uuid values are drawn from small sets of identifiers; the id of a       *)
(* SpatialPartition and the id, event_type and data of a GameEvent are     *)
(* read by no method and are left out of the records.                      *)
(*                                                                         *)
(* A method taking &mut self is modelled by an operator that returns the   *)
(* receiver after the call ("self") together with the returned value       *)
(* ("ret").                                                                *)
(***************************************************************************)
EXTENDS Integers, Sequences, FiniteSets

VARIABLES
    server,   \* a GameServer owned by the caller, or NoServer
    cluster,  \* a ServerCluster owned by the caller, or NoCluster
    master,   \* the MasterServer
    last,     \* the most recent method call: its argument, what it returned, for
              \* a loop how often each callee was invoked, for an insertion the
              \* map before it; NoCall after a constructor
    manager,  \* the PlayerManager: its map from player id to notification handle
    notifies, \* the Notify objects allocated so far: per handle, the number of
              \* notify_one calls made on it
    issued    \* per handle, the player id add_player allocated it for, and
              \* whether a later add_player put another handle in its place

vars == <<server, cluster, master, last, manager, notifies, issued>>

(***************************************************************************)
(* Bounds and input sets                                                   *)
(***************************************************************************)
\* partition corners of the geometry specification: 0, Extent, .., MaxCoord * Extent
MaxCoord == 1
\* number of cube tiles along the diagonal used as server partitions in the
\* cluster specification
NumTiles == 2
\* side of a server tile, as in the documentation examples
Extent == 100

NoServer == [none |-> "server"]
NoCluster == [none |-> "cluster"]
NoCall == [op |-> "none"]
Unit == "()"

ServerIds == {"s1", "s2", "s3"}
CoreServerIds == {"s1", "s2"}
ClusterIds == {"c1", "c2"}
MasterId == "m1"

(***************************************************************************)
(* Vector3, GameEvent, SpatialPartition                                    *)
(***************************************************************************)
Vector3_new(x, y, z) == [x |-> x, y |-> y, z |-> z]

GameEvent_new(position, radius) == [position |-> position, radius |-> radius]

SpatialPartition_new(min, max) == [min |-> min, max |-> max]

\* contains with the upper bound of z excluded
SpatialPartition_contains_exclusive(self, point) ==
    /\ point.x >= self.min.x /\ point.x <= self.max.x
    /\ point.y >= self.min.y /\ point.y <= self.max.y
    /\ point.z >= self.min.z /\ point.z < self.max.z

SpatialPartition_contains(self, point) ==
    /\ point.x >= self.min.x /\ point.x <= self.max.x
    /\ point.y >= self.min.y /\ point.y <= self.max.y
    /\ point.z >= self.min.z /\ point.z <= self.max.z

\* intersects with a strict comparison on y
SpatialPartition_intersects_strict(self, other) ==
    /\ self.min.x <= other.max.x /\ self.max.x >= other.min.x
    /\ self.min.y <= other.max.y /\ self.max.y > other.min.y
    /\ self.min.z <= other.max.z /\ self.max.z >= other.min.z

SpatialPartition_intersects(self, other) ==
    /\ self.min.x <= other.max.x /\ self.max.x >= other.min.x
    /\ self.min.y <= other.max.y /\ self.max.y >= other.min.y
    /\ self.min.z <= other.max.z /\ self.max.z >= other.min.z

(***************************************************************************)
(* GameServer                                                              *)
(***************************************************************************)
\* f32::min
F32Min(a, b) == IF a <= b THEN a ELSE b

\* x / 2.0; exact here because every partition extent of the model is even
F32Half(x) == x \div 2

\* GameServer::new draws the id at random; players and objects are public
\* fields, empty after new and filled by the owner of the server.
GameServer_new(id, partition, players, objects) ==
    [id |-> id, partition |-> partition, players |-> players, objects |-> objects]

\* process_event with radius >= half of the smallest extent counted as overflow
GameServer_process_event_ge(self, event) ==
    [self |-> self,
     ret  |-> \/ ~SpatialPartition_contains(self.partition, event.position)
              \/ event.radius >=
                   F32Half(F32Min(self.partition.max.x - self.partition.min.x,
                                  F32Min(self.partition.max.y - self.partition.min.y,
                                         self.partition.max.z - self.partition.min.z)))]

\* process_event that drops the players of the server it runs on
GameServer_process_event_mutating(self, event) ==
    [self |-> [self EXCEPT !.players = {}],
     ret  |-> \/ ~SpatialPartition_contains(self.partition, event.position)
              \/ event.radius >
                   F32Half(F32Min(self.partition.max.x - self.partition.min.x,
                                  F32Min(self.partition.max.y - self.partition.min.y,
                                         self.partition.max.z - self.partition.min.z)))]

GameServer_process_event(self, event) ==
    [self |-> self,
     ret  |-> \/ ~SpatialPartition_contains(self.partition, event.position)
              \/ event.radius >
                   F32Half(F32Min(self.partition.max.x - self.partition.min.x,
                                  F32Min(self.partition.max.y - self.partition.min.y,
                                         self.partition.max.z - self.partition.min.z)))]

(***************************************************************************)
(* HashMap<Uuid, V>: a function from the set of keys present to values.    *)
(***************************************************************************)
EmptyMap == <<>>

\* HashMap::insert(k, v): the entry under k is created or replaced
\* insert that keeps the entry already under k
HashMap_insert_keep(m, k, v) ==
    [x \in (DOMAIN m) \cup {k} |-> IF x \in DOMAIN m THEN m[x] ELSE v]

HashMap_insert(m, k, v) ==
    [x \in (DOMAIN m) \cup {k} |-> IF x = k THEN v ELSE m[x]]

\* The orders in which values_mut() may yield the entries of a map with key
\* set S: the iteration order of a HashMap is unspecified.
IterOrders(S) ==
    {o \in [1..Cardinality(S) -> S] : \A i, j \in 1..Cardinality(S) : o[i] = o[j] => i = j}

(***************************************************************************)
(* ServerCluster                                                           *)
(***************************************************************************)
ServerCluster_new(id, partition) ==
    [id |-> id, partition |-> partition, servers |-> EmptyMap]

ServerCluster_add_server(self, srv) ==
    [self EXCEPT !.servers = HashMap_insert(@, srv.id, srv)]

\* The box the loop of propagate_event builds from the event
EventBounds(event) ==
    SpatialPartition_new(
        Vector3_new(event.position.x - event.radius, event.position.y - event.radius,
                    event.position.z - event.radius),
        Vector3_new(event.position.x + event.radius, event.position.y + event.radius,
                    event.position.z + event.radius))

\* The condition under which the loop of propagate_event hands the event to a server
\* the dispatch condition without the intersection test
Dispatches_containsOnly(srv, event) ==
    SpatialPartition_contains(srv.partition, event.position)

Dispatches(srv, event) ==
    \/ SpatialPartition_contains(srv.partition, event.position)
    \/ SpatialPartition_intersects(srv.partition, EventBounds(event))

\* One iteration of the loop body of propagate_event on the server under key sid.
\* st = [servers, cluster_overflow, calls]; calls lists the servers on which
\* process_event was invoked, in order.
\* the loop body with cluster_overflow assigned instead of or-ed
ClusterLoopBody_assign(st, sid, event) ==
    IF Dispatches(st.servers[sid], event)
    THEN LET r == GameServer_process_event(st.servers[sid], event)
         IN  [servers          |-> [st.servers EXCEPT ![sid] = r.self],
              cluster_overflow |-> r.ret,
              calls            |-> Append(st.calls, sid)]
    ELSE st

ClusterLoopBody(st, sid, event) ==
    IF Dispatches(st.servers[sid], event)
    THEN LET r == GameServer_process_event(st.servers[sid], event)
         IN  [servers          |-> [st.servers EXCEPT ![sid] = r.self],
              cluster_overflow |-> st.cluster_overflow \/ r.ret,
              calls            |-> Append(st.calls, sid)]
    ELSE st

RECURSIVE ClusterLoop(_, _, _)
ClusterLoop(st, order, event) ==
    IF order = <<>> THEN st
    ELSE ClusterLoop(ClusterLoopBody(st, Head(order), event), Tail(order), event)

\* propagate_event without the cluster-boundary term
ServerCluster_propagate_event_noBoundary(self, event, order) ==
    LET st == ClusterLoop([servers |-> self.servers, cluster_overflow |-> FALSE,
                           calls |-> <<>>], order, event)
    IN  [self  |-> [self EXCEPT !.servers = st.servers],
         ret   |-> st.cluster_overflow,
         calls |-> st.calls]

\* ServerCluster::propagate_event, iterating self.servers in the given order
ServerCluster_propagate_event(self, event, order) ==
    LET st == ClusterLoop([servers |-> self.servers, cluster_overflow |-> FALSE,
                           calls |-> <<>>], order, event)
    IN  [self  |-> [self EXCEPT !.servers = st.servers],
         ret   |-> st.cluster_overflow
                   \/ ~SpatialPartition_contains(self.partition, event.position),
         calls |-> st.calls]

(***************************************************************************)
(* MasterServer                                                            *)
(***************************************************************************)
MasterServer_new(id) == [id |-> id, clusters |-> EmptyMap]

MasterServer_add_cluster(self, cl) ==
    [self EXCEPT !.clusters = HashMap_insert(@, cl.id, cl)]

\* One iteration of the loop of MasterServer::propagate_event on the cluster
\* under key cid, whose own loop runs in order sorder.  st = [clusters, visits,
\* calls, dropped]: visits lists the clusters on which propagate_event was
\* invoked, calls the <<cluster, server>> pairs on which process_event was
\* invoked, dropped the values the cluster calls returned and the loop ignores.
\* the loop body forwarding only to clusters whose partition contains the origin
MasterLoopBody_filtered(st, cid, sorder, event) ==
    IF SpatialPartition_contains(st.clusters[cid].partition, event.position)
    THEN LET r == ServerCluster_propagate_event(st.clusters[cid], event, sorder)
         IN  [clusters |-> [st.clusters EXCEPT ![cid] = r.self],
              visits   |-> Append(st.visits, cid),
              calls    |-> st.calls \o [i \in 1..Len(r.calls) |-> <<cid, r.calls[i]>>],
              dropped  |-> Append(st.dropped, <<cid, r.ret>>)]
    ELSE st

MasterLoopBody(st, cid, sorder, event) ==
    LET r == ServerCluster_propagate_event(st.clusters[cid], event, sorder)
    IN  [clusters |-> [st.clusters EXCEPT ![cid] = r.self],
         visits   |-> Append(st.visits, cid),
         calls    |-> st.calls \o [i \in 1..Len(r.calls) |-> <<cid, r.calls[i]>>],
         dropped  |-> Append(st.dropped, <<cid, r.ret>>)]

RECURSIVE MasterLoop(_, _, _, _)
MasterLoop(st, corder, sorders, event) ==
    IF corder = <<>> THEN st
    ELSE MasterLoop(MasterLoopBody(st, Head(corder), sorders[Head(corder)], event),
                    Tail(corder), sorders, event)

\* MasterServer::propagate_event, iterating self.clusters in order corder and
\* the servers of cluster c in order sorders[c].  The method returns ().
MasterServer_propagate_event(self, event, corder, sorders) ==
    LET st == MasterLoop([clusters |-> self.clusters, visits |-> <<>>, calls |-> <<>>,
                          dropped |-> <<>>], corder, sorders, event)
    IN  [self    |-> [self EXCEPT !.clusters = st.clusters],
         ret     |-> Unit,
         visits  |-> st.visits,
         calls   |-> st.calls,
         dropped |-> st.dropped]

(***************************************************************************)
(* PlayerManager.  An Arc<Notify> is a handle: the index of a Notify in    *)
(* the sequence of the Notify objects allocated so far; the sequence holds *)
(* per Notify the number of notify_one calls made on it.  Each method      *)
(* takes the mutex for its one access to the map, and remove_player calls  *)
(* notify_one on the handle it took out of the map and on nothing else.    *)
(***************************************************************************)
PlayerManager_new == [players |-> EmptyMap]

\* HashMap::remove(k): the map without the entry under k
HashMap_remove(m, k) == [x \in (DOMAIN m) \ {k} |-> m[x]]

\* Arc::new(Notify::new()): a Notify nobody has notified
Notify_new == 0

Notify_notify_one(n) == n + 1

\* PlayerManager::add_player; heap is the sequence of the Notify objects
PlayerManager_add_player(self, heap, player_id) ==
    LET notify == Len(heap) + 1
    IN  [self |-> [self EXCEPT !.players = HashMap_insert(@, player_id, notify)],
         heap |-> Append(heap, Notify_new),
         ret  |-> notify]

\* remove_player that looks the handle up and leaves the entry in the map
PlayerManager_remove_player_get(self, heap, player_id) ==
    IF player_id \in DOMAIN self.players
    THEN [self |-> self,
          heap |-> [heap EXCEPT ![self.players[player_id]] = Notify_notify_one(@)]]
    ELSE [self |-> self, heap |-> heap]

\* PlayerManager::remove_player
PlayerManager_remove_player(self, heap, player_id) ==
    IF player_id \in DOMAIN self.players
    THEN [self |-> [self EXCEPT !.players = HashMap_remove(@, player_id)],
          heap |-> [heap EXCEPT ![self.players[player_id]] = Notify_notify_one(@)]]
    ELSE [self |-> self, heap |-> heap]

(***************************************************************************)
(* Inputs                                                                  *)
(***************************************************************************)
Cube(lo, hi) == SpatialPartition_new(Vector3_new(lo, lo, lo), Vector3_new(hi, hi, hi))

\* Server partitions: cubes of side Extent along the diagonal, each touching
\* the next in one corner.  Tile(0) is the server partition of the
\* documentation examples.
Tile(i) == Cube(i * Extent, (i + 1) * Extent)

\* The server of tile 0 is as GameServer::new leaves it, the others hold a
\* player and an object.
ServerOn(id, i) ==
    GameServer_new(id, Tile(i),
                   IF i = 0 THEN {} ELSE {<<"player", i>>},
                   IF i = 0 THEN {} ELSE {<<"object", i>>})

ServerInputs == {ServerOn(id, i) : id \in ServerIds, i \in 0..(NumTiles - 1)}

\* Cluster partitions: the one of the documentation examples, and one that
\* covers tile 0 only.
BigRegion == Cube(0, 10 * Extent)
SmallRegion == Cube(0, Extent)
ClusterRegions == {BigRegion, SmallRegion}

Radii == {-10, 10, 50, 60}

\* Event origins on the diagonal: inside, on the corners of and outside the tiles
EventCoords == {-50} \cup {50 * k : k \in 1..(2 * NumTiles + 1)}

\* The event of section 8 of the specification that is far from every server
FarEvent == GameEvent_new(Vector3_new(500, 500, 500), 1)

Events ==
    {GameEvent_new(Vector3_new(d, d, d), r) : d \in EventCoords, r \in Radii}
        \cup {FarEvent}

\* Inputs of the specification of the whole hierarchy
CoreServers == {ServerOn(id, i) : id \in CoreServerIds, i \in 0..1}

CoreEvents ==
    {GameEvent_new(Vector3_new(50, 50, 50), 10),
     GameEvent_new(Vector3_new(50, 50, 50), -10),
     GameEvent_new(Vector3_new(150, 150, 150), 10),
     FarEvent}

RECURSIVE AddServers(_, _)
AddServers(cl, srvs) ==
    IF srvs = <<>> THEN cl
    ELSE AddServers(ServerCluster_add_server(cl, Head(srvs)), Tail(srvs))

\* Clusters handed to add_cluster, each built by new and add_server
ClusterInputs ==
    UNION {{AddServers(ServerCluster_new(id, SmallRegion), <<ServerOn("s2", 1)>>),
            AddServers(ServerCluster_new(id, BigRegion),
                       <<ServerOn("s1", 0), ServerOn("s2", 1)>>)} :
           id \in ClusterIds}

\* Inputs of the geometry specification: every partition with corners on the
\* grid (min <= max or not: SpatialPartition::new checks nothing), points on
\* and between the grid lines and one beyond them.
GridCoords == {i * Extent : i \in 0..MaxCoord}
GridVectors == {Vector3_new(x, y, z) : x \in GridCoords, y \in GridCoords, z \in GridCoords}
GeomRegions == {SpatialPartition_new(lo, hi) : lo \in GridVectors, hi \in GridVectors}
PointCoords == {i * (Extent \div 2) : i \in 0..(2 * MaxCoord)}
BeyondCoord == MaxCoord * Extent + Extent \div 2
GeomPoints ==
    {Vector3_new(x, y, z) : x \in PointCoords, y \in PointCoords, z \in PointCoords}
        \cup {Vector3_new(BeyondCoord, BeyondCoord, BeyondCoord)}
\* The partitions the documentation example of intersects tests Tile(0) against
DocRegions == {Cube(Extent \div 2, Extent + Extent \div 2), Cube(2 * Extent, 3 * Extent)}
GeomEvents == {GameEvent_new(p, r) : p \in GeomPoints, r \in Radii}

\* How often each element occurs in a sequence
Tally(seq) ==
    [x \in {seq[i] : i \in DOMAIN seq} |-> Cardinality({i \in DOMAIN seq : seq[i] = x})]

\* The orders in which the loops of MasterServer::propagate_event may run:
\* one order for each cluster's servers
ServerOrders(clusters) ==
    {f \in [DOMAIN clusters ->
              UNION {IterOrders(DOMAIN clusters[c].servers) : c \in DOMAIN clusters}] :
        \A c \in DOMAIN clusters : f[c] \in IterOrders(DOMAIN clusters[c].servers)}

(***************************************************************************)
(* Actions                                                                 *)
(***************************************************************************)
Init ==
    /\ server = NoServer
    /\ cluster = NoCluster
    /\ master = MasterServer_new(MasterId)
    /\ last = NoCall
    /\ manager = PlayerManager_new
    /\ notifies = <<>>
    /\ issued = <<>>

NewServer(s) ==
    /\ server' = s
    /\ last' = NoCall
    /\ UNCHANGED <<cluster, master, manager, notifies, issued>>

ProcessEvent(e) ==
    /\ server # NoServer
    /\ LET r == GameServer_process_event(server, e)
       IN  /\ server' = r.self
           /\ last' = [op |-> "GameServer::process_event", arg |-> e, ret |-> r.ret]
    /\ UNCHANGED <<cluster, master, manager, notifies, issued>>

NewCluster(id, partition) ==
    /\ cluster' = ServerCluster_new(id, partition)
    /\ last' = NoCall
    /\ UNCHANGED <<server, master, manager, notifies, issued>>

AddServer(s) ==
    /\ cluster # NoCluster
    /\ cluster' = ServerCluster_add_server(cluster, s)
    /\ last' = [op |-> "ServerCluster::add_server", arg |-> s, before |-> cluster.servers]
    /\ UNCHANGED <<server, master, manager, notifies, issued>>

ClusterPropagate(e) ==
    /\ cluster # NoCluster
    /\ \E order \in IterOrders(DOMAIN cluster.servers) :
         LET r == ServerCluster_propagate_event(cluster, e, order)
         IN  /\ cluster' = r.self
             /\ last' = [op |-> "ServerCluster::propagate_event", arg |-> e,
                         ret |-> r.ret, calls |-> Tally(r.calls)]
    /\ UNCHANGED <<server, master, manager, notifies, issued>>

AddCluster(c) ==
    /\ master' = MasterServer_add_cluster(master, c)
    /\ last' = [op |-> "MasterServer::add_cluster", arg |-> c, before |-> master.clusters]
    /\ UNCHANGED <<server, cluster, manager, notifies, issued>>

MasterPropagate(e) ==
    /\ \E corder \in IterOrders(DOMAIN master.clusters) :
       \E sorders \in ServerOrders(master.clusters) :
         LET r == MasterServer_propagate_event(master, e, corder, sorders)
         IN  /\ master' = r.self
             /\ last' = [op |-> "MasterServer::propagate_event", arg |-> e,
                         ret |-> r.ret, visits |-> Tally(r.visits),
                         calls |-> Tally(r.calls),
                         dropped |-> {r.dropped[i] : i \in DOMAIN r.dropped}]
    /\ UNCHANGED <<server, cluster, manager, notifies, issued>>

\* The whole hierarchy
Next ==
    \/ \E s \in CoreServers : NewServer(s)
    \/ \E e \in CoreEvents : ProcessEvent(e)
    \/ \E partition \in ClusterRegions : NewCluster("c1", partition)
    \/ \E s \in CoreServers : AddServer(s)
    \/ \E e \in CoreEvents : ClusterPropagate(e)
    \/ \E c \in ClusterInputs : AddCluster(c)
    \/ \E e \in CoreEvents : MasterPropagate(e)

Spec == Init /\ [][Next]_vars

\* One cluster and its servers, over more tiles and events
NextCluster ==
    \/ \E id \in ClusterIds, partition \in ClusterRegions : NewCluster(id, partition)
    \/ \E s \in ServerInputs : AddServer(s)
    \/ \E e \in Events : ClusterPropagate(e)

SpecCluster == Init /\ [][NextCluster]_vars

(***************************************************************************)
(* The geometry specification: the predicates of one SpatialPartition and  *)
(* process_event of a server that owns it, over every partition of a grid. *)
(* The initial states hold the receiver and a call about to be made, the   *)
(* actions make the call.                                                  *)
(***************************************************************************)
GeomCalls ==
    {[op |-> "call", method |-> "SpatialPartition::contains", arg |-> p] : p \in GeomPoints}
        \cup {[op |-> "call", method |-> "SpatialPartition::intersects", arg |-> b] :
                 b \in GeomRegions \cup DocRegions}
        \cup {[op |-> "call", method |-> "GameServer::process_event", arg |-> e] :
                 e \in GeomEvents}

InitGeom ==
    /\ server \in {GameServer_new("s1", p, {}, {}) : p \in GeomRegions \cup {Tile(0)}}
    /\ cluster = NoCluster
    /\ master = MasterServer_new(MasterId)
    /\ last \in GeomCalls
    /\ manager = PlayerManager_new
    /\ notifies = <<>>
    /\ issued = <<>>

Contains ==
    /\ last.op = "call" /\ last.method = "SpatialPartition::contains"
    /\ last' = [op |-> "SpatialPartition::contains", arg |-> last.arg,
                ret |-> SpatialPartition_contains(server.partition, last.arg)]
    /\ UNCHANGED <<server, cluster, master, manager, notifies, issued>>

Intersects ==
    /\ last.op = "call" /\ last.method = "SpatialPartition::intersects"
    /\ last' = [op |-> "SpatialPartition::intersects", arg |-> last.arg,
                ret |-> SpatialPartition_intersects(server.partition, last.arg)]
    /\ UNCHANGED <<server, cluster, master, manager, notifies, issued>>

ProcessEventCall ==
    /\ last.op = "call" /\ last.method = "GameServer::process_event"
    /\ ProcessEvent(last.arg)

NextGeom ==
    \/ Contains
    \/ Intersects
    \/ ProcessEventCall

SpecGeom == InitGeom /\ [][NextGeom]_vars

(***************************************************************************)
(* Properties of the geometry specification                                *)
(***************************************************************************)
Axes == {"x", "y", "z"}

\* the point lies in [min, max] on the axis
Within(region, point, a) == region.min[a] <= point[a] /\ point[a] <= region.max[a]

\* the smallest of the three extents max - min
SmallestExtent(region) ==
    CHOOSE m \in {region.max[a] - region.min[a] : a \in Axes} :
        \A a \in Axes : m <= region.max[a] - region.min[a]

Origin50 == Vector3_new(50, 50, 50)
Origin150 == Vector3_new(150, 150, 150)

\* C1: process_event returns true iff the event origin is not contained in the
\* server's partition (bounds inclusive) or the radius is strictly greater than
\* half of the smallest of the three extents; with the partition
\* (0,0,0)-(100,100,100): false for origin (50,50,50) radius 10 and radius 50,
\* true for origin (150,150,150) radius 10 and for origin (50,50,50) radius 60.
C1_ProcessEventOverflow ==
    last.op = "GameServer::process_event" =>
        /\ last.ret = (\/ ~(\A a \in Axes : Within(server.partition, last.arg.position, a))
                       \/ 2 * last.arg.radius > SmallestExtent(server.partition))
        /\ server.partition = Tile(0) =>
             /\ last.arg = GameEvent_new(Origin50, 10) => last.ret = FALSE
             /\ last.arg = GameEvent_new(Origin50, 50) => last.ret = FALSE
             /\ last.arg = GameEvent_new(Origin150, 10) => last.ret = TRUE
             /\ last.arg = GameEvent_new(Origin50, 60) => last.ret = TRUE

\* C1 witness: an origin inside the partition with the radius exactly half of
\* the smallest extent was processed and reported no overflow
C1_Witness ==
    /\ last.op = "GameServer::process_event"
    /\ server.partition = Tile(0)
    /\ last.arg = GameEvent_new(Origin50, 50)
    /\ last.ret = FALSE

\* C9: contains(p) is true iff p lies in [min, max] on every axis, bounds
\* included: the corners min and max are contained; (0,0,0)-(100,100,100)
\* contains (50,50,50) and not (150,150,150).
C9_ContainsInclusive ==
    last.op = "SpatialPartition::contains" =>
        /\ last.ret = (\A a \in Axes : Within(server.partition, last.arg, a))
        /\ (\A a \in Axes : server.partition.min[a] <= server.partition.max[a]) =>
             (last.arg \in {server.partition.min, server.partition.max} => last.ret = TRUE)
        /\ server.partition = Tile(0) =>
             /\ last.arg = Origin50 => last.ret = TRUE
             /\ last.arg = Origin150 => last.ret = FALSE

\* C9 witness: the max corner of a box with positive extents was tested and is contained
C9_Witness ==
    /\ last.op = "SpatialPartition::contains"
    /\ server.partition = Tile(0)
    /\ last.arg = server.partition.max
    /\ last.ret = TRUE

\* the boxes share a point on the axis (for boxes with min <= max)
SharePoint(ra, rb, a) == (ra.min[a]..ra.max[a]) \cap (rb.min[a]..rb.max[a]) # {}

WellFormed(region) == \A a \in Axes : region.min[a] <= region.max[a]

\* C10: intersects is true iff A.min <= B.max and A.max >= B.min on x, y and z;
\* for boxes with min <= max that is: the boxes share a point on every axis, so
\* boxes that touch in a face, an edge or a corner intersect and boxes apart on
\* some axis do not; (0,0,0)-(100,100,100) intersects (50,50,50)-(150,150,150)
\* and not (200,200,200)-(300,300,300).
C10_IntersectsInclusive ==
    last.op = "SpatialPartition::intersects" =>
        /\ last.ret = (\A a \in Axes : /\ server.partition.min[a] <= last.arg.max[a]
                                       /\ server.partition.max[a] >= last.arg.min[a])
        /\ WellFormed(server.partition) /\ WellFormed(last.arg) =>
             last.ret = (\A a \in Axes : SharePoint(server.partition, last.arg, a))
        /\ server.partition = Tile(0) =>
             /\ last.arg = Cube(50, 150) => last.ret = TRUE
             /\ last.arg = Cube(200, 300) => last.ret = FALSE

\* C10 witness: two boxes with positive extents that touch in one corner only
\* were tested and intersect
C10_Witness ==
    /\ last.op = "SpatialPartition::intersects"
    /\ server.partition = Cube(0, Extent)
    /\ last.arg = SpatialPartition_new(Vector3_new(Extent, Extent, Extent),
                                       Vector3_new(Extent, Extent, Extent))
    /\ last.ret = TRUE

(***************************************************************************)
(* Properties of ServerCluster::propagate_event                            *)
(***************************************************************************)
\* The servers of a cluster that the event concerns: the partition contains the
\* origin or meets the box [origin - radius, origin + radius] on every axis
Concerned(cl, event) ==
    {sid \in DOMAIN cl.servers :
        \/ \A a \in Axes : Within(cl.servers[sid].partition, event.position, a)
        \/ \A a \in Axes :
              /\ cl.servers[sid].partition.min[a] <= event.position[a] + event.radius
              /\ cl.servers[sid].partition.max[a] >= event.position[a] - event.radius}

OriginInside(cl, event) == \A a \in Axes : Within(cl.partition, event.position, a)

\* C2: propagate_event returns (some server the event was dispatched to reports
\* overflow from process_event) or (the origin is not in the cluster's
\* partition); an origin outside the cluster's partition always yields true.
C2_ClusterOverflow ==
    last.op = "ServerCluster::propagate_event" =>
        /\ last.ret =
             (\/ \E sid \in DOMAIN last.calls :
                    GameServer_process_event(cluster.servers[sid], last.arg).ret
              \/ ~OriginInside(cluster, last.arg))
        /\ ~OriginInside(cluster, last.arg) => last.ret = TRUE

\* C2 witness: the origin is outside the cluster's partition, the one server
\* the event was dispatched to reports no overflow, and the call returned true
C2_Witness ==
    /\ last.op = "ServerCluster::propagate_event"
    /\ ~OriginInside(cluster, last.arg)
    /\ DOMAIN last.calls # {}
    /\ \A sid \in DOMAIN last.calls :
          ~GameServer_process_event(cluster.servers[sid], last.arg).ret
    /\ last.ret = TRUE

\* C3: process_event is invoked exactly once on each server whose partition
\* contains the origin or meets the event's box, and on no other server; when
\* there is no such server the call returns the cluster-boundary check alone.
C3_DispatchSet ==
    last.op = "ServerCluster::propagate_event" =>
        /\ DOMAIN last.calls = Concerned(cluster, last.arg)
        /\ \A sid \in DOMAIN last.calls : last.calls[sid] = 1
        /\ Concerned(cluster, last.arg) = {} => last.ret = ~OriginInside(cluster, last.arg)

\* C3 witness: a cluster whose only server covers (0,0,0)-(100,100,100) got the
\* event at (500,500,500) radius 1, dispatched it to no server and returned true
C3_Witness ==
    /\ last.op = "ServerCluster::propagate_event"
    /\ last.arg = FarEvent
    /\ Cardinality(DOMAIN cluster.servers) = 1
    /\ \A sid \in DOMAIN cluster.servers : cluster.servers[sid].partition = Tile(0)
    /\ DOMAIN last.calls = {}
    /\ last.ret = TRUE

\* The sequences that list every server of the cluster once
BuildOrders(cl) ==
    {[i \in DOMAIN o |-> cl.servers[o[i]]] : o \in IterOrders(DOMAIN cl.servers)}

\* C4: a cluster with the same partition built by adding the same servers in
\* any order, and iterated in any order, returns the same overflow value and
\* dispatches to the same servers.
C4_OrderIndependent ==
    last.op = "ServerCluster::propagate_event" =>
        \A build \in BuildOrders(cluster) :
            LET other == AddServers(ServerCluster_new(cluster.id, cluster.partition), build)
            IN  \A order \in IterOrders(DOMAIN other.servers) :
                    LET r == ServerCluster_propagate_event(other, last.arg, order)
                    IN  /\ r.ret = last.ret
                        /\ Tally(r.calls) = last.calls

\* C4 witness: an event was dispatched to three servers of which the one
\* reports overflow and another does not
C4_Witness ==
    /\ last.op = "ServerCluster::propagate_event"
    /\ Cardinality(DOMAIN last.calls) = 3
    /\ \E s, t \in DOMAIN last.calls :
          /\ GameServer_process_event(cluster.servers[s], last.arg).ret
          /\ ~GameServer_process_event(cluster.servers[t], last.arg).ret

(***************************************************************************)
(* Properties of the whole hierarchy                                       *)
(***************************************************************************)
\* m is the map before with v put under key k: k holds v, every other key
\* holds what it held, no other key appeared, and the length is unchanged when
\* k was present
Overwritten(m, before, k, v) ==
    /\ DOMAIN m = (DOMAIN before) \cup {k}
    /\ m[k] = v
    /\ \A x \in (DOMAIN before) \ {k} : m[x] = before[x]
    /\ k \in DOMAIN before => Cardinality(DOMAIN m) = Cardinality(DOMAIN before)
    /\ k \notin DOMAIN before => Cardinality(DOMAIN m) = Cardinality(DOMAIN before) + 1

\* C5: add_server and add_cluster overwrite by identifier: after the call the
\* map holds the added value under its identifier and every other entry as it
\* was; adding an identifier already present leaves the length unchanged; each
\* entry is kept under its own identifier, one per identifier.
C5_OverwriteById ==
    /\ last.op = "ServerCluster::add_server" =>
          Overwritten(cluster.servers, last.before, last.arg.id, last.arg)
    /\ last.op = "MasterServer::add_cluster" =>
          Overwritten(master.clusters, last.before, last.arg.id, last.arg)
    /\ cluster # NoCluster => \A k \in DOMAIN cluster.servers : cluster.servers[k].id = k
    /\ \A c \in DOMAIN master.clusters :
          /\ master.clusters[c].id = c
          /\ \A k \in DOMAIN master.clusters[c].servers : master.clusters[c].servers[k].id = k

\* C5 witness: a server was added under an identifier that held another server,
\* beside a second entry
C5_Witness ==
    /\ last.op = "ServerCluster::add_server"
    /\ last.arg.id \in DOMAIN last.before
    /\ last.before[last.arg.id] # last.arg
    /\ Cardinality(DOMAIN last.before) = 2
    /\ cluster.servers[last.arg.id] = last.arg

\* C6: MasterServer::propagate_event invokes propagate_event exactly once on
\* every cluster it owns, wherever the cluster's partition lies, and returns
\* (): the value each cluster call returned is dropped.
C6_MasterForwardsAll ==
    last.op = "MasterServer::propagate_event" =>
        /\ DOMAIN last.visits = DOMAIN master.clusters
        /\ \A c \in DOMAIN last.visits : last.visits[c] = 1
        /\ last.ret = Unit
        /\ \A c \in DOMAIN master.clusters :
              \E order \in IterOrders(DOMAIN master.clusters[c].servers) :
                 <<c, ServerCluster_propagate_event(master.clusters[c], last.arg, order).ret>>
                    \in last.dropped

\* C6 witness: two clusters got an event; the one is nowhere near it (its
\* partition does not contain the origin and none of its servers is concerned)
\* and reported overflow, which the master dropped
C6_Witness ==
    /\ last.op = "MasterServer::propagate_event"
    /\ Cardinality(DOMAIN last.visits) = 2
    /\ \E c \in DOMAIN master.clusters :
          /\ ~OriginInside(master.clusters[c], last.arg)
          /\ Concerned(master.clusters[c], last.arg) = {}
          /\ last.visits[c] = 1
          /\ <<c, TRUE>> \in last.dropped
    /\ last.ret = Unit

PropagationOps ==
    {"GameServer::process_event", "ServerCluster::propagate_event",
     "MasterServer::propagate_event"}

\* C7 as claimed: no event with a negative radius exists or reaches
\* process_event or propagate_event
C7_NoNegativeRadius ==
    last.op \in PropagationOps => last.arg.radius >= 0

\* C8: process_event and the two propagate_event leave the server, the cluster
\* and the master as they were (entity sets, partitions, identifiers, keys), and
\* the same event propagated again returns the same value.
C8_PropagationFrame ==
    [][last'.op \in PropagationOps =>
          /\ server' = server
          /\ cluster' = cluster
          /\ master' = master
          /\ last'.op = "GameServer::process_event" =>
                GameServer_process_event(server', last'.arg).ret = last'.ret
          /\ last'.op = "ServerCluster::propagate_event" =>
                \A order \in IterOrders(DOMAIN cluster'.servers) :
                    ServerCluster_propagate_event(cluster', last'.arg, order).ret = last'.ret]_vars

\* C8 witness: an event was dispatched to a server of the cluster that holds
\* players and objects
C8_Witness ==
    /\ last.op = "ServerCluster::propagate_event"
    /\ \E sid \in DOMAIN last.calls :
          /\ cluster.servers[sid].players # {}
          /\ cluster.servers[sid].objects # {}

(***************************************************************************)
(* Reflexivity of intersects                                               *)
(***************************************************************************)
\* C11 as claimed: every partition that can be constructed intersects itself.
\* SpatialPartition::new stores min and max as given, so a partition with
\* min > max on some axis is constructed and does not intersect itself.
C11_IntersectsReflexive ==
    (last.op = "SpatialPartition::intersects" /\ last.arg = server.partition) =>
        last.ret = TRUE

(***************************************************************************)
(* The PlayerManager specification                                         *)
(***************************************************************************)
PlayerIds == {"p1", "p2"}

\* add_player is called at most MaxHandles times
MaxHandles == 4

AddPlayer(player_id) ==
    /\ Len(notifies) < MaxHandles
    /\ LET r == PlayerManager_add_player(manager, notifies, player_id)
       IN  /\ manager' = r.self
           /\ notifies' = r.heap
           /\ issued' =
                Append([h \in DOMAIN issued |->
                           IF /\ player_id \in DOMAIN manager.players
                              /\ manager.players[player_id] = h
                           THEN [issued[h] EXCEPT !.replaced = TRUE]
                           ELSE issued[h]],
                       [owner |-> player_id, replaced |-> FALSE])
           /\ last' = [op |-> "PlayerManager::add_player", arg |-> player_id,
                       ret |-> r.ret, before |-> manager.players,
                       notifiesBefore |-> notifies]
    /\ UNCHANGED <<server, cluster, master>>

RemovePlayer(player_id) ==
    /\ LET r == PlayerManager_remove_player(manager, notifies, player_id)
       IN  /\ manager' = r.self
           /\ notifies' = r.heap
           /\ last' = [op |-> "PlayerManager::remove_player", arg |-> player_id,
                       before |-> manager.players, notifiesBefore |-> notifies]
    /\ UNCHANGED <<server, cluster, master, issued>>

NextPlayers ==
    \/ \E id \in PlayerIds : AddPlayer(id)
    \/ \E id \in PlayerIds : RemovePlayer(id)

SpecPlayers == Init /\ [][NextPlayers]_vars

(***************************************************************************)
(* The registry of the PlayerManager                                       *)
(***************************************************************************)
Handles == DOMAIN notifies

\* the handles add_player allocated for player_id
HandlesOf(player_id) == {h \in Handles : issued[h].owner = player_id}

\* the handles other than h hold the notify_one counts they held before the call
OthersUntouched(h) ==
    \A g \in Handles \ {h} :
        g \in DOMAIN last.notifiesBefore => notifies[g] = last.notifiesBefore[g]

\* C12: over any sequence of add_player and remove_player calls, the map holds
\* for a registered player id the handle returned by the most recent
\* add_player(id), which no remove_player(id) followed; remove_player on a
\* registered id removes the entry and calls notify_one exactly once, on that
\* handle; remove_player on an unregistered id changes nothing and notifies
\* nobody; a handle replaced by a second add_player(id) is never notified.
C12_Registry ==
    /\ DOMAIN issued = Handles
    /\ \A id \in DOMAIN manager.players :
          LET h == manager.players[id]
          IN  /\ h \in HandlesOf(id)
              /\ \A g \in HandlesOf(id) : g <= h
              /\ notifies[h] = 0
              /\ ~issued[h].replaced
    /\ \A id \in PlayerIds \ DOMAIN manager.players :
          \A h \in HandlesOf(id) : issued[h].replaced \/ notifies[h] = 1
    /\ \A h \in Handles :
          /\ notifies[h] \in {0, 1}
          /\ issued[h].replaced => notifies[h] = 0
    /\ last.op = "PlayerManager::add_player" =>
          /\ last.ret \notin DOMAIN last.notifiesBefore
          /\ DOMAIN manager.players = DOMAIN last.before \cup {last.arg}
          /\ manager.players[last.arg] = last.ret
          /\ \A id \in DOMAIN last.before \ {last.arg} :
                manager.players[id] = last.before[id]
          /\ notifies[last.ret] = 0
          /\ OthersUntouched(last.ret)
    /\ (last.op = "PlayerManager::remove_player" /\ last.arg \in DOMAIN last.before) =>
          /\ DOMAIN manager.players = DOMAIN last.before \ {last.arg}
          /\ \A id \in DOMAIN manager.players : manager.players[id] = last.before[id]
          /\ Handles = DOMAIN last.notifiesBefore
          /\ notifies[last.before[last.arg]] =
                last.notifiesBefore[last.before[last.arg]] + 1
          /\ OthersUntouched(last.before[last.arg])
    /\ (last.op = "PlayerManager::remove_player" /\ last.arg \notin DOMAIN last.before) =>
          /\ manager.players = last.before
          /\ notifies = last.notifiesBefore

\* remove_player(id) took out the current handle of a player id whose earlier
\* handle a second add_player(id) had replaced, while another player stays
\* registered
C12_Witness ==
    /\ last.op = "PlayerManager::remove_player"
    /\ last.arg \in DOMAIN last.before
    /\ \E h \in HandlesOf(last.arg) : issued[h].replaced /\ notifies[h] = 0
    /\ notifies[last.before[last.arg]] = 1
    /\ DOMAIN manager.players # {}

====
